---- MODULE Spec2Model ----
(***************************************************************************)
(* ninecopy: a two-phase, multithreaded directory copy.                    *)
(*   main         validates the arguments, then runs the two phases        *)
(*   search_dir   coordinator of the scan phase (pending counter)          *)
(*   search       scan worker: lists the directories it is sent            *)
(*   copy_queue   coordinator of the copy phase (idle counter)             *)
(*   copy_thread  copy worker: copies the items it is handed               *)
(* Channels are std::sync::mpsc channels: unbounded FIFO queues, modelled  *)
(* as sequences.  A path is a pair (base, rel) where rel is the node of    *)
(* the source tree the path leads to (0 is the root).                      *)
(***************************************************************************)
EXTENDS Integers, Sequences, FiniteSets, TLC

\* Largest number of entries (files and directories) below the source root.
MaxNodes == 2
\* Largest thread count (the --threads option).
MaxThreads == 2
MaxDeltas == 3
MaxBytes == 1

----------------------------------------------------------------------------
(* The source tree and the paths                                           *)

\* A tree of k entries: entry i is a file or a directory whose parent is the
\* root (0) or an earlier directory, so the tree is finite and acyclic.  The
\* entries of one directory are numbered in the order read_dir yields them
\* (any order of any tree is the numbering of some tree of this set).
TreesOfSize(k) ==
  { t \in [1..k -> [kind : {"file", "dir"}, parent : 0..MaxNodes]] :
      \A i \in 1..k :
        /\ t[i].parent < i
        /\ t[i].parent # 0 => t[t[i].parent].kind = "dir" }

Trees == UNION { TreesOfSize(k) : k \in 0..MaxNodes }

\* entry.metadata().len() of a file found by the scan
FileLen(n) == n

\* the bytes of source file n
SrcContent(n) == n

\* a destination file that was there before the run holds other bytes
OldContent == 0
\* no file at that destination path
NoFile == -1

SrcPath(n) == [base |-> "src", rel |-> n]

\* Path::strip_prefix(copy_base).unwrap(): the relative suffix of the path
StripPrefix(p, base) == IF p.base = base THEN p.rel ELSE -1

\* dest_base.join(relative)
Join(base, rel) == [base |-> base, rel |-> rel]

----------------------------------------------------------------------------
(* Accumulator (stats.rs)                                                  *)

Default ==
  [file_count_found |-> 0, byte_count_found |-> 0,
   file_count_copied |-> 0, byte_count_copied |-> 0,
   file_count_skipped |-> 0, byte_count_skipped |-> 0]

\* found with the two arguments taken in the wrong order
found_swapped(files, bytes) ==
  [Default EXCEPT !.file_count_found = bytes, !.byte_count_found = files]

found(files, bytes) ==
  [Default EXCEPT !.file_count_found = files, !.byte_count_found = bytes]

copies(files, bytes) ==
  [Default EXCEPT !.file_count_copied = files, !.byte_count_copied = bytes]

skips(files, bytes) ==
  [Default EXCEPT !.file_count_skipped = files, !.byte_count_skipped = bytes]

\* Add for Accumulator: the sum, counter by counter
add(self, rhs) ==
  [file_count_found |-> self.file_count_found + rhs.file_count_found,
   byte_count_found |-> self.byte_count_found + rhs.byte_count_found,
   file_count_copied |-> self.file_count_copied + rhs.file_count_copied,
   byte_count_copied |-> self.byte_count_copied + rhs.byte_count_copied,
   file_count_skipped |-> self.file_count_skipped + rhs.file_count_skipped,
   byte_count_skipped |-> self.byte_count_skipped + rhs.byte_count_skipped]

\* an add_assign whose last line is `=` in place of `+=`
add_assign_last_overwrites(self, rhs) ==
  [file_count_found |-> self.file_count_found + rhs.file_count_found,
   byte_count_found |-> self.byte_count_found + rhs.byte_count_found,
   file_count_copied |-> self.file_count_copied + rhs.file_count_copied,
   byte_count_copied |-> self.byte_count_copied + rhs.byte_count_copied,
   file_count_skipped |-> self.file_count_skipped + rhs.file_count_skipped,
   byte_count_skipped |-> rhs.byte_count_skipped]

\* AddAssign for Accumulator
add_assign(self, rhs) ==
  [file_count_found |-> self.file_count_found + rhs.file_count_found,
   byte_count_found |-> self.byte_count_found + rhs.byte_count_found,
   file_count_copied |-> self.file_count_copied + rhs.file_count_copied,
   byte_count_copied |-> self.byte_count_copied + rhs.byte_count_copied,
   file_count_skipped |-> self.file_count_skipped + rhs.file_count_skipped,
   byte_count_skipped |-> self.byte_count_skipped + rhs.byte_count_skipped]

----------------------------------------------------------------------------
(* Messages                                                                *)

\* SearchResult
File(n) == [type |-> "File", path |-> SrcPath(n), len |-> FileLen(n)]
Directory(n) == [type |-> "Directory", path |-> SrcPath(n), len |-> 0]
Done == [type |-> "Done", path |-> SrcPath(0), len |-> 0]

\* Result<ThreadReady, CopyError> on the request channel
ThreadReady(id, acc) == [kind |-> "Ready", id |-> id, delta |-> acc, rel |-> 0]
CopyErr(kind, rel) == [kind |-> kind, id |-> 0, delta |-> Default, rel |-> rel]

NoItem == [type |-> "None", path |-> SrcPath(0), len |-> 0]
NoResult == [kind |-> "None", id |-> 0, delta |-> Default, rel |-> 0]

----------------------------------------------------------------------------
VARIABLES
  src_kind,      \* what cli.src is: "missing", "file" or "dir"
  tree,          \* the entries below cli.src
  threads,       \* the thread count
  skip,          \* cli.skip
  overwrite,     \* cli.overwrite
  pc,            \* where the main thread is
  result,        \* what main returns: NoResult, or the CopyError
  \* scan phase
  path_chan,     \* search_dir: path_senders[w] -> worker w
  result_chan,   \* search_dir: the shared result channel
  spc,           \* scan worker: "none" (not spawned), "recv", "list" or "exit"
  scur,          \* scan worker: the directory being listed
  stodo,         \* scan worker: entries of scur not yet reported
  pending,       \* search_dir: pending
  sender_idx,    \* search_dir: sender_idx
  queue,         \* the queue search_dir builds and copy_queue consumes
  accumulator,   \* main: the running total
  \* copy phase
  item_chan,     \* copy_queue: path_senders[w] -> worker w
  request_chan,  \* copy_queue: the shared request channel
  cpc,           \* copy worker: "none", "start", "recv", "work" or "exit"
  ccur,          \* copy worker: the item being processed
  idle,          \* copy_queue: idle
  \* the file system
  src_gone,      \* source files seen to be gone by a copy worker
  dst_dirs,      \* the destination directories that exist (0 is cli.dst)
  dst_file,      \* the content of each destination file, or NoFile
  \* history
  dst_file0,     \* dst_file when the run started
  dispatched,    \* number of paths search_dir sent to scan workers
  dones_read,    \* number of Done messages search_dir read
  sent_to,       \* scan: the worker each dispatched path went to, in order
  handed,        \* copy: per entry, how often it was handed to a worker
  processed,     \* copy: per entry, how often a worker finished it
  outcome,       \* copy: per entry, the delta its worker reported for it
  sent_total,    \* copy: the sum of the deltas the workers sent
  idle_by,       \* copy: per worker, how often it was counted idle
  errs_sent,     \* copy: per worker, how many errors it sent or tried to send
  \* the Accumulator on its own (MergeSpec)
  deltas,        \* the deltas that are to be merged
  pool,          \* the deltas, and sums of deltas, not yet merged
  total          \* the accumulator the pool is merged into

vars ==
  << src_kind, tree, threads, skip, overwrite, pc, result,
     path_chan, result_chan, spc, scur, stodo, pending, sender_idx, queue,
     accumulator, item_chan, request_chan, cpc, ccur, idle,
     src_gone, dst_dirs, dst_file,
     dst_file0, dispatched, dones_read, sent_to, handed, processed, outcome,
     sent_total, idle_by, errs_sent, deltas, pool, total >>

scan_vars ==
  << path_chan, result_chan, spc, scur, stodo, pending, sender_idx,
     dispatched, dones_read, sent_to >>

copy_vars ==
  << item_chan, request_chan, cpc, ccur, idle, handed, processed, outcome,
     sent_total, idle_by, errs_sent >>

fs_vars == << src_gone, dst_dirs, dst_file >>

input_vars == << src_kind, tree, threads, skip, overwrite, dst_file0 >>

merge_vars == << deltas, pool, total >>

Workers == 0..(threads - 1)
Nodes == DOMAIN tree
Files == { n \in Nodes : tree[n].kind = "file" }
Dirs == { n \in Nodes : tree[n].kind = "dir" }
Children(d) == { n \in Nodes : tree[n].parent = d }

\* d and the directories above it, up to the root
RECURSIVE Ancestors(_, _)
Ancestors(t, d) == IF d = 0 THEN {0} ELSE {d} \cup Ancestors(t, t[d].parent)

----------------------------------------------------------------------------
Init ==
  /\ src_kind \in {"missing", "file", "dir"}
  /\ tree \in IF src_kind = "dir" THEN Trees ELSE {<< >>}
  /\ threads \in 1..MaxThreads
  /\ skip \in BOOLEAN
  /\ overwrite \in BOOLEAN
  /\ pc = "main"
  /\ result = NoResult
  /\ path_chan = [w \in Workers |-> << >>]
  /\ result_chan = << >>
  /\ spc = [w \in Workers |-> "none"]
  /\ scur = [w \in Workers |-> 0]
  /\ stodo = [w \in Workers |-> {}]
  /\ pending = 0
  /\ sender_idx = 0
  /\ queue = << >>
  /\ accumulator = Default
  /\ item_chan = [w \in Workers |-> << >>]
  /\ request_chan = << >>
  /\ cpc = [w \in Workers |-> "none"]
  /\ ccur = [w \in Workers |-> NoItem]
  /\ idle = 0
  /\ src_gone = {}
  /\ \E pre \in SUBSET Files, root \in BOOLEAN :
       /\ dst_file = [n \in Nodes |-> IF n \in pre THEN OldContent ELSE NoFile]
       /\ dst_dirs = UNION { Ancestors(tree, tree[n].parent) : n \in pre }
                       \cup (IF root THEN {0} ELSE {})
  /\ dst_file0 = dst_file
  /\ dispatched = 0
  /\ dones_read = 0
  /\ sent_to = << >>
  /\ handed = [n \in Nodes |-> 0]
  /\ processed = [n \in Nodes |-> 0]
  /\ outcome = [n \in Nodes |-> Default]
  /\ sent_total = Default
  /\ idle_by = [w \in Workers |-> 0]
  /\ errs_sent = [w \in Workers |-> 0]
  /\ deltas = << >>
  /\ pool = << >>
  /\ total = Default

----------------------------------------------------------------------------
(* main, up to the call of search_dir; search_dir up to its loop           *)

\* a main without the exists() check: is_dir() is false for a missing path
ArgError_NoExistsCheck(kind, skp, ovw) ==
  IF kind # "dir" THEN "NotFaster"
  ELSE IF skp /\ ovw THEN "Other"
  ELSE "no"

\* main's checks, in the order of the code: the error main returns, or "no"
ArgError(kind, skp, ovw) ==
  IF kind = "missing" THEN "SourceNotFound"
  ELSE IF kind # "dir" THEN "NotFaster"
  ELSE IF skp /\ ovw THEN "Other"
  ELSE "no"

\* main: the argument checks, then search_dir spawns the scan workers, sends
\* the root path to worker 0 and sets pending and sender_idx
Main ==
  /\ pc = "main"
  /\ IF ArgError(src_kind, skip, overwrite) # "no"
       THEN /\ pc' = "err"
            /\ result' = CopyErr(ArgError(src_kind, skip, overwrite), 0)
            /\ UNCHANGED << path_chan, spc, pending, sender_idx, dispatched, sent_to >>
     ELSE /\ pc' = "search_dir"
          /\ spc' = [w \in Workers |-> "recv"]
          /\ path_chan' = [path_chan EXCEPT ![0] = Append(@, 0)]
          /\ pending' = 1
          /\ sender_idx' = 1
          /\ dispatched' = 1
          /\ sent_to' = << 0 >>
          /\ UNCHANGED result
  /\ UNCHANGED << merge_vars, input_vars, result_chan, scur, stodo, dones_read, queue,
                  accumulator, copy_vars, fs_vars >>

----------------------------------------------------------------------------
(* search: the scan worker                                                 *)

\* for path in rx: take the next path and open its listing (read_dir and
\* metadata are taken to succeed: the tree is readable during the scan)
search_recv(w) ==
  /\ pc \in {"search_dir", "search_join"}
  /\ spc[w] = "recv"
  /\ path_chan[w] # << >>
  /\ spc' = [spc EXCEPT ![w] = "list"]
  /\ scur' = [scur EXCEPT ![w] = Head(path_chan[w])]
  /\ stodo' = [stodo EXCEPT ![w] = Children(Head(path_chan[w]))]
  /\ path_chan' = [path_chan EXCEPT ![w] = Tail(@)]
  /\ UNCHANGED << merge_vars, input_vars, pc, result, result_chan, pending, sender_idx,
                  dispatched, dones_read, sent_to, queue, accumulator,
                  copy_vars, fs_vars >>

\* the entry read_dir yields next
NextEntry(todo) == CHOOSE n \in todo : \A m \in todo : n <= m

\* one entry of read_dir
search_entry(w) ==
  /\ pc \in {"search_dir", "search_join"}
  /\ spc[w] = "list"
  /\ stodo[w] # {}
  /\ LET n == NextEntry(stodo[w]) IN
       /\ result_chan' = Append(result_chan,
                                IF tree[n].kind = "dir" THEN Directory(n) ELSE File(n))
       /\ stodo' = [stodo EXCEPT ![w] = @ \ {n}]
  /\ UNCHANGED << merge_vars, input_vars, pc, result, path_chan, spc, scur, pending,
                  sender_idx, dispatched, dones_read, sent_to, queue,
                  accumulator, copy_vars, fs_vars >>

\* the listing is drained: one Done for this directory
search_done(w) ==
  /\ pc \in {"search_dir", "search_join"}
  /\ spc[w] = "list"
  /\ stodo[w] = {}
  /\ result_chan' = Append(result_chan, Done)
  /\ spc' = [spc EXCEPT ![w] = "recv"]
  /\ scur' = [scur EXCEPT ![w] = 0]
  /\ UNCHANGED << merge_vars, input_vars, pc, result, path_chan, stodo, pending,
                  sender_idx, dispatched, dones_read, sent_to, queue,
                  accumulator, copy_vars, fs_vars >>

----------------------------------------------------------------------------
(* search_dir: the scan coordinator                                        *)

\* the round-robin step after a dispatch
NextSenderIdx(idx, len) == IF idx + 1 = len THEN 0 ELSE idx + 1

\* a coordinator that forgets `pending += 1` on a Directory message
PendingAfter_NoIncrement(p, type) == IF type = "Done" THEN p - 1 ELSE p

\* pending after a message of that type: += 1 on Directory, -= 1 on Done
PendingAfter(p, type) ==
  IF type = "Directory" THEN p + 1 ELSE IF type = "Done" THEN p - 1 ELSE p

\* a coordinator that adds found-stats for directories too
CountsAsFound_Directories(type) == type \in {"File", "Directory"}

\* the match arm that holds `*accumulator += Accumulator::found(..)`
CountsAsFound(type) == type = "File"

\* one iteration of `while pending > 0`: read one message and handle it; when
\* pending reaches 0 the loop ends and the path senders are dropped
search_dir ==
  /\ pc = "search_dir"
  /\ result_chan # << >>
  /\ LET m == Head(result_chan) IN
       /\ result_chan' = Tail(result_chan)
       /\ accumulator' = IF CountsAsFound(m.type)
                           THEN add_assign(accumulator, found(1, m.len))
                           ELSE accumulator
       /\ IF m.type = "File"
            THEN /\ queue' = Append(queue, m)
                 /\ pending' = PendingAfter(pending, m.type)
                 /\ pc' = IF pending' > 0 THEN "search_dir" ELSE "search_join"
                 /\ UNCHANGED << path_chan, sender_idx, dispatched,
                                 dones_read, sent_to >>
          ELSE IF m.type = "Directory"
            THEN /\ pending' = PendingAfter(pending, m.type)
                 /\ IF sender_idx >= threads
                      THEN \* path_senders[sender_idx]: index out of bounds
                           /\ pc' = "panic"
                           /\ UNCHANGED << path_chan, sender_idx, dispatched,
                                           sent_to, queue >>
                      ELSE /\ path_chan' = [path_chan EXCEPT
                                              ![sender_idx] = Append(@, m.path.rel)]
                           /\ sender_idx' = NextSenderIdx(sender_idx, threads)
                           /\ queue' = Append(queue, m)
                           /\ dispatched' = dispatched + 1
                           /\ sent_to' = Append(sent_to, sender_idx)
                           /\ pc' = IF pending' > 0 THEN "search_dir" ELSE "search_join"
                 /\ UNCHANGED dones_read
          ELSE /\ pending' = PendingAfter(pending, m.type)
               /\ dones_read' = dones_read + 1
               /\ pc' = IF pending' > 0 THEN "search_dir" ELSE "search_join"
               /\ UNCHANGED << queue, path_chan, sender_idx, dispatched, sent_to >>
  /\ UNCHANGED << merge_vars, input_vars, result, spc, scur, stodo, copy_vars, fs_vars >>

\* The path senders are dropped, so each worker's `for path in rx` ends once
\* it has drained its channel, and the joins return; search_dir returns the
\* queue and main calls copy_queue, which spawns the copy workers and sets idle
search_join ==
  /\ pc = "search_join"
  /\ \A w \in Workers : spc[w] = "recv" /\ path_chan[w] = << >>
  /\ spc' = [w \in Workers |-> "exit"]
  /\ pc' = "copy_queue"
  /\ cpc' = [w \in Workers |-> "start"]
  /\ idle' = 0
  /\ UNCHANGED << merge_vars, input_vars, result, path_chan, result_chan, scur, stodo,
                  pending, sender_idx, dispatched, dones_read, sent_to, queue,
                  accumulator, item_chan, request_chan, ccur, handed, processed,
                  outcome, sent_total, idle_by, errs_sent, fs_vars >>

----------------------------------------------------------------------------
(* copy_thread: the copy worker                                            *)

\* the request receiver lives until copy_queue returns
ReceiverAlive == pc \in {"copy_queue", "copy_join"}

\* copy_queue has dropped its path senders (on its way out)
SendersDropped == pc \in {"copy_join", "err"}

\* the first request: ready, nothing to report
copy_thread_start(w) ==
  /\ cpc[w] = "start"
  /\ pc \in {"copy_queue", "copy_join", "err"}
  /\ IF ReceiverAlive
       THEN /\ request_chan' = Append(request_chan, ThreadReady(w, Default))
            /\ cpc' = [cpc EXCEPT ![w] = "recv"]
       ELSE /\ cpc' = [cpc EXCEPT ![w] = "exit"]
            /\ UNCHANGED request_chan
  /\ UNCHANGED << merge_vars, input_vars, pc, result, scan_vars, queue, accumulator,
                  item_chan, ccur, idle, handed, processed, outcome,
                  sent_total, idle_by, errs_sent, fs_vars >>

\* for result in path_receiver: take the next item
copy_thread_recv(w) ==
  /\ cpc[w] = "recv"
  /\ pc \in {"copy_queue", "copy_join", "err"}
  /\ item_chan[w] # << >>
  /\ ccur' = [ccur EXCEPT ![w] = Head(item_chan[w])]
  /\ item_chan' = [item_chan EXCEPT ![w] = Tail(@)]
  /\ cpc' = [cpc EXCEPT ![w] = "work"]
  /\ UNCHANGED << merge_vars, input_vars, pc, result, scan_vars, queue, accumulator,
                  request_chan, idle, handed, processed, outcome, sent_total,
                  idle_by, errs_sent, fs_vars >>

\* the item channel is closed and empty: the for loop ends
copy_thread_exit(w) ==
  /\ cpc[w] = "recv"
  /\ SendersDropped
  /\ item_chan[w] = << >>
  /\ cpc' = [cpc EXCEPT ![w] = "exit"]
  /\ UNCHANGED << merge_vars, input_vars, pc, result, scan_vars, queue, accumulator,
                  item_chan, request_chan, ccur, idle, handed, processed,
                  outcome, sent_total, idle_by, errs_sent, fs_vars >>

\* a worker that copies over an existing destination without the flags
FilePolicy_NoConflictCheck(src_exists, dst_exists, skp, ovw) ==
  IF ~src_exists \/ (dst_exists /\ skp) THEN "skip" ELSE "copy"

\* a worker that does not look at the skip flag before it copies
FilePolicy_IgnoreSkip(src_exists, dst_exists, skp, ovw) ==
  IF dst_exists /\ ~skp /\ ~ovw THEN "CannotOverwrite"
  ELSE IF ~src_exists THEN "skip"
  ELSE "copy"

\* What copy_thread decides for a File item from the two exists() checks and
\* the flags: "CannotOverwrite" (fatal), "skip" or "copy".
FilePolicy(src_exists, dst_exists, skp, ovw) ==
  IF dst_exists /\ ~skp /\ ~ovw THEN "CannotOverwrite"
  ELSE IF ~src_exists \/ (dst_exists /\ skp) THEN "skip"
  ELSE "copy"

\* DirBuilder::new().recursive(true).create(dir): dir and all that is above it
CreateDirAll(dirs, d) == dirs \cup Ancestors(tree, d)

\* a copy that leaves an existing destination file as it is
FsCopy_NoClobber(files, n) ==
  IF files[n] = NoFile THEN [files EXCEPT ![n] = SrcContent(n)] ELSE files

\* std::fs::copy(from, to): the destination holds the bytes of the source
FsCopy(files, n) == [files EXCEPT ![n] = SrcContent(n)]

\* a worker that reports nothing for a file it skipped
FileDelta_SkipsUnreported(policy, len) ==
  IF policy = "copy" THEN copies(1, len) ELSE Default

\* the delta reported for a File item that was not fatal
FileDelta(policy, len) == IF policy = "copy" THEN copies(1, len) ELSE skips(1, len)

\* a worker that sends the error and stays in its loop
AfterFatal_NoReturn == "recv"

\* `return` after the error is sent: the worker has left its loop
AfterFatal == "exit"

\* One item, from the match to the send that reports it.  src_exists is what
\* file_result.path.exists() answers; io is what the file system answers to
\* the directory creation and the copy.
copy_thread_item(w) ==
  /\ cpc[w] = "work"
  /\ pc \in {"copy_queue", "copy_join", "err"}
  /\ LET item == ccur[w]
         rel == StripPrefix(item.path, "src")
         new_path == Join("dst", rel)
     IN
     \E src_exists \in BOOLEAN, io \in {"ok", "mkdir_failed", "denied", "other"} :
       LET dst_exists == item.type = "File" /\ dst_file[new_path.rel] # NoFile
           policy == IF item.type = "File"
                       THEN FilePolicy(src_exists, dst_exists, skip, overwrite)
                       ELSE "mkdir"
           dir == IF item.type = "File" THEN tree[rel].parent ELSE new_path.rel
           must_mkdir == policy = "mkdir" \/ (policy = "copy" /\ dir \notin dst_dirs)
           fatal == IF policy = "CannotOverwrite" THEN "CannotOverwrite"
                    ELSE IF must_mkdir /\ io = "mkdir_failed" THEN "DirectoryCreationFailed"
                    ELSE IF policy = "copy" /\ io = "denied" THEN "AccessDenied"
                    ELSE IF policy = "copy" /\ io = "other" THEN "Other"
                    ELSE "no"
           delta == IF item.type = "File" THEN FileDelta(policy, item.len) ELSE Default
       IN
       \* the answers that are never asked for are not enumerated
       /\ item.type # "File" => src_exists
       /\ io = "mkdir_failed" => must_mkdir
       /\ io \in {"denied", "other"} => policy = "copy"
       /\ src_gone' = IF src_exists THEN src_gone ELSE src_gone \cup {rel}
       /\ dst_dirs' = IF must_mkdir /\ io # "mkdir_failed"
                        THEN CreateDirAll(dst_dirs, dir) ELSE dst_dirs
       /\ dst_file' = IF policy = "copy" /\ fatal = "no"
                        THEN FsCopy(dst_file, new_path.rel) ELSE dst_file
       /\ IF fatal # "no"
            THEN \* let _ = request_sender.send(Err(..)); return
                 /\ request_chan' = IF ReceiverAlive
                                      THEN Append(request_chan, CopyErr(fatal, new_path.rel))
                                      ELSE request_chan
                 /\ errs_sent' = [errs_sent EXCEPT ![w] = @ + 1]
                 /\ cpc' = [cpc EXCEPT ![w] = AfterFatal]
                 /\ UNCHANGED << processed, outcome, sent_total >>
            ELSE \* request_sender.send(Ok(ThreadReady(thread_id, accumulator)))
                 /\ processed' = [processed EXCEPT ![rel] = @ + 1]
                 /\ outcome' = [outcome EXCEPT ![rel] = delta]
                 /\ UNCHANGED errs_sent
                 /\ IF ReceiverAlive
                      THEN /\ request_chan' = Append(request_chan, ThreadReady(w, delta))
                           /\ sent_total' = add_assign(sent_total, delta)
                           /\ cpc' = [cpc EXCEPT ![w] = "recv"]
                      ELSE /\ cpc' = [cpc EXCEPT ![w] = "exit"]
                           /\ UNCHANGED << request_chan, sent_total >>
  /\ ccur' = [ccur EXCEPT ![w] = NoItem]
  /\ UNCHANGED << merge_vars, input_vars, pc, result, scan_vars, queue, accumulator,
                  item_chan, idle, handed, idle_by >>

----------------------------------------------------------------------------
(* copy_queue: the copy coordinator                                        *)

\* `let rq = rq?`: an Err leaves copy_queue at once
IsFatal(rq) == rq.kind # "Ready"

\* a front() in place of pop_front(): the item stays in the queue
PopFront_Keep(q) == q

\* queue.pop_front(): what is left of the queue
PopFront(q) == Tail(q)

\* a break that waits for one idle report too many
AllIdle_OffByOne(idle_count, thread_count) == idle_count = thread_count + 1

\* a break that comes one idle report early
AllIdle_OneShort(idle_count, thread_count) == idle_count >= thread_count - 1

\* a break on the first idle report
AllIdle_FirstIdle(idle_count, thread_count) == idle_count >= 1

\* `if idle == threads { break; }`
AllIdle(idle_count, thread_count) == idle_count = thread_count

\* a coordinator that always feeds its first worker
Recipient_First(rq) == 0

\* path_senders[rq.0]: the item goes to the worker that sent the request
Recipient(rq) == rq.id

\* a coordinator that notes the error and reads on while requests are waiting
copy_queue_err_reads_on(rq) ==
  /\ pc' = IF Tail(request_chan) = << >> THEN "err" ELSE "copy_queue"
  /\ result' = rq

\* `let rq = rq?` on an Err: copy_queue returns that error at once
copy_queue_err(rq) ==
  /\ pc' = "err"
  /\ result' = rq

\* One iteration of `for rq in request_receiver`.
copy_queue ==
  /\ pc = "copy_queue"
  /\ request_chan # << >>
  /\ LET rq == Head(request_chan) IN
       /\ request_chan' = Tail(request_chan)
       /\ IF IsFatal(rq)
            THEN /\ copy_queue_err(rq)
                 /\ UNCHANGED << queue, item_chan, accumulator, idle, handed, idle_by >>
          ELSE IF queue # << >>
            THEN /\ queue' = PopFront(queue)
                 /\ IF cpc[Recipient(rq)] = "exit"
                      THEN \* send(p).unwrap() to a worker that is gone
                           /\ pc' = "panic"
                           /\ UNCHANGED << item_chan, accumulator, handed >>
                      ELSE /\ item_chan' = [item_chan EXCEPT
                                              ![Recipient(rq)] = Append(@, Head(queue))]
                           /\ handed' = [handed EXCEPT ![Head(queue).path.rel] = @ + 1]
                           /\ accumulator' = add_assign(accumulator, rq.delta)
                           /\ pc' = IF AllIdle(idle, threads) THEN "copy_join" ELSE "copy_queue"
                 /\ UNCHANGED << result, idle, idle_by >>
          ELSE /\ accumulator' = add_assign(accumulator, rq.delta)
               /\ idle' = idle + 1
               /\ idle_by' = [idle_by EXCEPT ![rq.id] = @ + 1]
               /\ pc' = IF AllIdle(idle', threads) THEN "copy_join" ELSE "copy_queue"
               /\ UNCHANGED << result, queue, item_chan, handed >>
  /\ UNCHANGED << merge_vars, input_vars, scan_vars, cpc, ccur, processed, outcome,
                  sent_total, errs_sent, fs_vars >>

\* for handle in thread_handles: join; Ok(())
copy_join ==
  /\ pc = "copy_join"
  /\ \A w \in Workers : cpc[w] = "exit"
  /\ pc' = "ok"
  /\ UNCHANGED << merge_vars, input_vars, result, scan_vars, queue, accumulator, copy_vars,
                  fs_vars >>

----------------------------------------------------------------------------
Next ==
  \/ Main
  \/ \E w \in Workers : search_recv(w)
  \/ \E w \in Workers : search_entry(w)
  \/ \E w \in Workers : search_done(w)
  \/ search_dir
  \/ search_join
  \/ \E w \in Workers : copy_thread_start(w)
  \/ \E w \in Workers : copy_thread_recv(w)
  \/ \E w \in Workers : copy_thread_item(w)
  \/ \E w \in Workers : copy_thread_exit(w)
  \/ copy_queue
  \/ copy_join

Spec == Init /\ [][Next]_vars

\* The main thread and the spawned threads are OS threads: as long as one of
\* them can take a step, one of them is eventually scheduled.
FairSpec == Spec /\ WF_vars(Next)

----------------------------------------------------------------------------
(* The Accumulator on its own: deltas merged in any order and grouping     *)

\* the deltas the workers and the scan produce, and the empty one
Deltas ==
  {Default} \cup { found(1, b) : b \in 1..MaxBytes }
            \cup { copies(1, b) : b \in 1..MaxBytes }
            \cup { skips(1, b) : b \in 1..MaxBytes }

\* the sequence q without its i-th element
Without(q, i) == SubSeq(q, 1, i - 1) \o SubSeq(q, i + 1, Len(q))

program_vars ==
  << input_vars, pc, result, scan_vars, queue, accumulator, copy_vars, fs_vars >>

\* MaxDeltas deltas, nothing merged yet; the program itself does not run
MergeInit ==
  /\ deltas \in [1..MaxDeltas -> Deltas]
  /\ pool = deltas
  /\ total = Default
  /\ src_kind = "missing" /\ tree = << >> /\ threads = 1
  /\ skip = FALSE /\ overwrite = FALSE
  /\ pc = "main" /\ result = NoResult
  /\ path_chan = [w \in Workers |-> << >>] /\ result_chan = << >>
  /\ spc = [w \in Workers |-> "none"]
  /\ scur = [w \in Workers |-> 0] /\ stodo = [w \in Workers |-> {}]
  /\ pending = 0 /\ sender_idx = 0 /\ queue = << >> /\ accumulator = Default
  /\ item_chan = [w \in Workers |-> << >>] /\ request_chan = << >>
  /\ cpc = [w \in Workers |-> "none"] /\ ccur = [w \in Workers |-> NoItem]
  /\ idle = 0 /\ src_gone = {} /\ dst_dirs = {}
  /\ dst_file = << >> /\ dst_file0 = << >>
  /\ dispatched = 0 /\ dones_read = 0 /\ sent_to = << >>
  /\ handed = << >> /\ processed = << >> /\ outcome = << >>
  /\ sent_total = Default /\ idle_by = [w \in Workers |-> 0]
  /\ errs_sent = [w \in Workers |-> 0]

\* *accumulator += delta, for any delta of the pool
merge_add_assign(i) ==
  /\ i \in 1..Len(pool)
  /\ total' = add_assign(total, pool[i])
  /\ pool' = Without(pool, i)
  /\ UNCHANGED << deltas, program_vars >>

\* a + b for any two deltas of the pool: the sum goes back into the pool
merge_add(i, j) ==
  /\ i \in 1..Len(pool) /\ j \in 1..Len(pool) /\ i # j
  /\ pool' = Append(Without(Without(pool, IF i > j THEN i ELSE j),
                            IF i > j THEN j ELSE i),
                    add(pool[i], pool[j]))
  /\ UNCHANGED << deltas, total, program_vars >>

MergeNext ==
  \/ \E i \in 1..MaxDeltas : merge_add_assign(i)
  \/ \E i, j \in 1..MaxDeltas : merge_add(i, j)

MergeSpec == MergeInit /\ [][MergeNext]_vars

----------------------------------------------------------------------------
(* Properties                                                              *)

RECURSIVE SumLen(_)
SumLen(S) == IF S = {} THEN 0
             ELSE LET n == CHOOSE x \in S : TRUE IN FileLen(n) + SumLen(S \ {n})

\* the copied and skipped counters of an accumulator
CopyPart(a) ==
  << a.file_count_copied, a.byte_count_copied,
     a.file_count_skipped, a.byte_count_skipped >>

\* the positions of the queue that hold item m
Positions(q, m) == { i \in 1..Len(q) : q[i] = m }

\* the scan coordinator is at the head of its loop, or has left it
AtScanLoop == pc \in {"search_dir", "search_join"}

\* some scan step can be taken
ScanCanStep ==
  \/ result_chan # << >>
  \/ \E w \in Workers : spc[w] = "list" \/ path_chan[w] # << >>

\* C1: for every finite tree and every thread count N >= 1 (N = 1 with a
\* subdirectory included) search_dir returns: its coordinator never aborts
\* and is never left waiting with pending > 0 for a message no worker will
\* send.
C1_SearchDirReturns ==
  /\ pc # "panic"
  /\ (pc = "search_dir" /\ pending > 0) => ScanCanStep

\* C2: when search_dir returns, the queue holds each file of the tree exactly
\* once as a File item, each subdirectory exactly once as a Directory item
\* and nothing else (no Done), and the accumulator is found(F, sum of the
\* file sizes).
C2_ScanComplete ==
  pc = "search_join" =>
    /\ \A n \in Files : Cardinality(Positions(queue, File(n))) = 1
    /\ \A n \in Dirs : Cardinality(Positions(queue, Directory(n))) = 1
    /\ Len(queue) = Cardinality(Files) + Cardinality(Dirs)
    /\ \A i \in 1..Len(queue) : queue[i].type # "Done"
    /\ accumulator.file_count_found = Cardinality(Files)
    /\ accumulator.byte_count_found = SumLen(Files)
    /\ CopyPart(accumulator) = << 0, 0, 0, 0 >>

\* search_dir has returned the queue of a tree with a file inside a
\* subdirectory
C2_Witness ==
  /\ pc = "search_join"
  /\ \E f \in Files : tree[f].parent \in Dirs

\* C3: at every loop head of the scan coordinator, pending is the number of
\* paths dispatched whose Done has not been read; and when pending is 0 every
\* directory of the tree has been dispatched, no path channel holds a path,
\* no worker is in a listing and the result channel holds no message.
C3_PendingCountsOpenListings ==
  AtScanLoop =>
    /\ pending = dispatched - dones_read
    /\ pending = 0 =>
         /\ dispatched = 1 + Cardinality(Dirs)
         /\ \A w \in Workers : path_chan[w] = << >> /\ spc[w] = "recv"
         /\ result_chan = << >>

\* the coordinator sees pending = 0 after two subdirectories were dispatched
C3_Witness ==
  /\ pc = "search_join"
  /\ pending = 0
  /\ Cardinality(Dirs) >= 2
  /\ dones_read = 3

\* the run has an error to return
Failed == result # NoResult

\* copy_queue has returned: Ok(()) after the joins, or the Err it read
CopyReturned == (pc = "ok" /\ ~Failed) \/ (pc = "err" /\ Failed)

\* C4: for every queue (the empty one included) and every thread count,
\* copy_queue, once called, returns: with success, and then idle = N, or with
\* the fatal error it read.
C4_CopyQueueReturns ==
  /\ (pc = "copy_queue") ~> CopyReturned
  /\ [](pc = "ok" => idle = threads)

\* copy_queue has returned success for the empty queue with two workers
C4_Witness ==
  /\ pc = "ok"
  /\ Nodes = {}
  /\ threads >= 2

\* C5: when the copy coordinator has left its loop with idle = N, the queue
\* is empty, every item handed out has been processed, every delta sent has
\* been merged, and every worker was counted idle exactly once; idle never
\* exceeds N and no worker is counted twice.
C5_IdleMeansAllDone ==
  /\ idle <= threads
  /\ \A w \in Workers : idle_by[w] <= 1
  /\ pc \in {"copy_join", "ok"} =>
       /\ idle = threads
       /\ queue = << >>
       /\ request_chan = << >>
       /\ \A w \in Workers :
            /\ item_chan[w] = << >>
            /\ cpc[w] \in {"recv", "exit"}
            /\ idle_by[w] = 1
       /\ \A n \in Nodes : processed[n] = handed[n]
       /\ CopyPart(accumulator) = CopyPart(sent_total)

\* the loop was left with idle = N after two workers shared two items
C5_Witness ==
  /\ pc = "copy_join"
  /\ threads = 2
  /\ Cardinality(Nodes) = 2
  /\ \A n \in Nodes : handed[n] = 1
  /\ sent_total # Default

\* the workers that hold item n: in their channel or being processed
Holders(n) ==
  { w \in Workers :
      \/ ccur[w].type # "None" /\ ccur[w].path.rel = n
      \/ \E i \in 1..Len(item_chan[w]) : item_chan[w][i].path.rel = n }

\* C6: no item is handed out twice or to two workers, and when copy_queue
\* returns success every item was handed out once and processed once.
C6_EachItemOnce ==
  /\ \A n \in Nodes : handed[n] <= 1 /\ processed[n] <= handed[n]
                      /\ Cardinality(Holders(n)) <= 1
  /\ pc = "ok" => \A n \in Nodes : handed[n] = 1 /\ processed[n] = 1

\* success after two items went through two workers
C6_Witness ==
  /\ pc = "ok"
  /\ threads = 2
  /\ Cardinality(Nodes) = 2
  /\ \A n \in Nodes : processed[n] = 1

\* the files whose destination path held a file before the run
PreExisting == { f \in Files : dst_file0[f] # NoFile }

\* the fatal errors on their way to the coordinator, and the one it returned
ErrorsRaised ==
  { request_chan[i] : i \in { j \in 1..Len(request_chan) : IsFatal(request_chan[j]) } }
    \cup (IF Failed THEN {result} ELSE {})

\* C7: for a tree whose destination paths are all new and whose files stay in
\* place, when the copy phase returns success every source file is at its
\* destination path with the same bytes, and every source directory (the
\* source root, whose counterpart is the destination root, and every
\* subdirectory) has its destination directory.
C7_CopyFidelity ==
  (pc = "ok" /\ PreExisting = {} /\ src_gone = {}) =>
    /\ \A f \in Files : dst_file[f] = SrcContent(f)
    /\ \A d \in Dirs \cup {0} : d \in dst_dirs

\* The part of C7 the code keeps: the files and the subdirectories are
\* mirrored; the destination root is there once the tree has an entry.
C7_EntriesMirrored ==
  (pc = "ok" /\ PreExisting = {} /\ src_gone = {}) =>
    /\ \A f \in Files : dst_file[f] = SrcContent(f)
    /\ \A d \in Dirs : d \in dst_dirs
    /\ Nodes # {} => 0 \in dst_dirs

\* a destination file is in the way and no flag says what to do about it
Conflict == ~skip /\ ~overwrite /\ PreExisting # {}

\* a step in which the coordinator gives no item to any worker
NothingHandedOut ==
  /\ handed' = handed
  /\ queue' = queue
  /\ \A w \in Workers : Len(item_chan'[w]) <= Len(item_chan[w])

\* C8 as stated: with a destination file in the way and neither flag set,
\* the copy phase ends with CannotOverwrite naming that very path, whichever
\* file it is.
C8_ErrorNamesThatPath ==
  (Conflict /\ pc \in {"ok", "err"}) =>
    /\ pc = "err"
    /\ \A f \in PreExisting : result.kind = "CannotOverwrite" /\ result.rel = f

\* C8, amended: with a destination file in the way and neither flag set, the
\* copy phase never returns success and ends with a fatal error; if that is
\* CannotOverwrite it names the destination path of one of the files in the
\* way (otherwise it is an I/O failure another worker reported first); once
\* the coordinator has read the error it hands out no further item.
C8_ConflictIsFatal ==
  /\ [](Conflict => pc \notin {"copy_join", "ok"})
  /\ []((Conflict /\ pc = "err") =>
          /\ result.kind \in {"CannotOverwrite", "DirectoryCreationFailed",
                              "AccessDenied", "Other"}
          /\ result.kind = "CannotOverwrite" => result.rel \in PreExisting)
  /\ (Conflict /\ pc = "copy_queue") ~> (pc = "err")
  /\ [][Failed => NothingHandedOut]_vars

\* the run ended with CannotOverwrite for one of two files in the way, after
\* both had been handed to workers
C8_Witness ==
  /\ Conflict
  /\ pc = "err"
  /\ result.kind = "CannotOverwrite"
  /\ Cardinality(PreExisting) = 2
  /\ \A f \in PreExisting : handed[f] = 1

\* C9: with skip set, a file whose destination path already exists is never
\* copied: the destination keeps its bytes, the delta reported for the item
\* is one skipped file of its scanned size and nothing copied, and no fatal
\* error is raised for it (an item that has left its worker was processed).
C9_SkipLeavesDestination ==
  skip =>
    \A f \in PreExisting :
      /\ dst_file[f] = dst_file0[f]
      /\ \A e \in ErrorsRaised : e.rel # f
      /\ (handed[f] = 1 /\ Holders(f) = {}) => processed[f] = 1
      /\ processed[f] >= 1 =>
           CopyPart(outcome[f]) = << 0, 0, 1, FileLen(f) >>

\* the scenario of the specification: one file skipped, the other copied
C9_Witness ==
  /\ skip
  /\ pc = "ok"
  /\ \E f \in PreExisting : processed[f] = 1 /\ dst_file[f] = OldContent
  /\ accumulator.file_count_copied = 1
  /\ accumulator.file_count_skipped = 1

\* C10: with overwrite set, a file whose destination path already exists and
\* whose source is still there is copied over it: once the item is processed
\* the destination holds the bytes of the source and the delta reported is
\* one copied file of its scanned size; no CannotOverwrite is ever raised.
C10_OverwriteCopies ==
  overwrite =>
    /\ \A e \in ErrorsRaised : e.kind # "CannotOverwrite"
    /\ \A f \in PreExisting :
         (f \notin src_gone /\ processed[f] >= 1) =>
           /\ dst_file[f] = SrcContent(f)
           /\ CopyPart(outcome[f]) = << 1, FileLen(f), 0, 0 >>

\* an existing destination file was overwritten and the run succeeded
C10_Witness ==
  /\ overwrite
  /\ pc = "ok"
  /\ \E f \in PreExisting :
       f \notin src_gone /\ processed[f] = 1 /\ dst_file[f] = SrcContent(f)


----------------------------------------------------------------------------
\* C11: a File item whose source is gone when the worker looks at it is
\* treated as skipped and is never fatal, whatever the skip and overwrite
\* flags are and whether or not the destination exists: the worker finishes
\* the item with a skipped delta of the scanned size and raises no error
\* for it.
C11_VanishedSourceIsSkipped ==
  \A f \in src_gone :
    /\ processed[f] = 1
    /\ CopyPart(outcome[f]) = << 0, 0, 1, FileLen(f) >>
    /\ \A e \in ErrorsRaised : e.rel # f


----------------------------------------------------------------------------
\* the first fatal error waiting in a channel
FirstFatal(ch) ==
  ch[CHOOSE i \in 1..Len(ch) :
       IsFatal(ch[i]) /\ \A j \in 1..(i - 1) : ~IsFatal(ch[j])]

\* C12: when several copy workers hit fatal conditions, copy_queue returns
\* exactly the first fatal error its coordinator reads: the run fails with
\* the first error in the request channel, and from then on the result never
\* changes and the run stays failed, whatever errors were sent after it.
C12_FirstErrorWins ==
  /\ [][(~Failed /\ Failed' /\ pc = "copy_queue") =>
          (result' = FirstFatal(request_chan) /\ pc' = "err")]_vars
  /\ [][Failed => (result' = result /\ pc' = "err")]_vars

\* copy_queue has returned an error while another worker's error, a different
\* one, was sent and is never read
C12_Witness ==
  /\ pc = "err"
  /\ \E i \in 1..Len(request_chan) :
       IsFatal(request_chan[i]) /\ request_chan[i] # result


----------------------------------------------------------------------------
\* the sum of one counter over a sequence of accumulators
RECURSIVE SumField(_, _)
SumField(q, c) == IF q = << >> THEN 0 ELSE Head(q)[c] + SumField(Tail(q), c)

\* the accumulator whose six counters are the sums over q
FieldSums(q) == [c \in DOMAIN Default |-> SumField(q, c)]

\* the accumulators at hand: the deltas and sums not yet merged, and the total
AtHand == {total} \cup { pool[i] : i \in 1..Len(pool) }

\* C13: merging accumulators is commutative and associative and the all-zero
\* accumulator is its identity; whatever order and grouping the deltas are
\* merged in, what is merged so far plus what is left is the sum of the
\* deltas counter by counter, so every order and grouping ends with the same
\* six counters.
C13_MergeLaws ==
  /\ FieldSums(<< total >> \o pool) = FieldSums(deltas)
  /\ pool = << >> => total = FieldSums(deltas)
  /\ \A a, b \in AtHand :
       /\ add(a, b) = add(b, a)
       /\ add_assign(a, b) = add_assign(b, a)
       /\ add_assign(a, b) = add(a, b)
       /\ \A c \in AtHand :
            /\ add(add(a, b), c) = add(a, add(b, c))
            /\ add_assign(add_assign(a, b), c) = add_assign(a, add_assign(b, c))
  /\ \A a \in AtHand :
       /\ add(a, Default) = a /\ add(Default, a) = a
       /\ add_assign(a, Default) = a /\ add_assign(Default, a) = a

\* the deltas, all different and none of them zero, have all been merged and
\* the total has found, copied and skipped files
C13_Witness ==
  /\ pool = << >>
  /\ Cardinality({ deltas[i] : i \in 1..Len(deltas) } \ {Default}) = MaxDeltas
  /\ total.file_count_found > 0
  /\ total.file_count_copied > 0
  /\ total.file_count_skipped > 0


----------------------------------------------------------------------------
\* C14: a source that does not exist, or exists and is not a directory, makes
\* the run fail fast: main returns SourceNotFound for the first and NotFaster
\* for the second, no scan or copy worker is ever spawned, and the
\* destination is left as it was.
C14_FailFast ==
  /\ [](src_kind # "dir" =>
         /\ pc \in {"main", "err"}
         /\ pc = "err" =>
              result = CopyErr(IF src_kind = "missing" THEN "SourceNotFound"
                                                       ELSE "NotFaster", 0)
         /\ \A w \in Workers : spc[w] = "none" /\ cpc[w] = "none"
         /\ path_chan = [w \in Workers |-> << >>])
  /\ [][src_kind # "dir" => UNCHANGED fs_vars]_vars

\* main has returned SourceNotFound for a missing source, with the
\* destination root in place and more than one thread asked for
C14_Witness ==
  /\ src_kind = "missing"
  /\ pc = "err"
  /\ result.kind = "SourceNotFound"
  /\ 0 \in dst_dirs
  /\ threads > 1


----------------------------------------------------------------------------
\* C15: in the scan phase the root path goes to worker 0 and the k-th
\* Directory message read (k = 1, 2, ...) is dispatched to worker k mod N,
\* for every N >= 1: the index used for a dispatch is always that of a
\* worker, and after worker N - 1 comes worker 0.
C15_RoundRobin ==
  /\ \A i \in 1..Len(sent_to) : sent_to[i] = (i - 1) % threads
  /\ (pc = "search_dir" /\ result_chan # << >>
        /\ Head(result_chan).type = "Directory") => sender_idx \in Workers
  /\ pc # "panic"


----------------------------------------------------------------------------
\* the queue entries of that type
OfType(q, type) == { i \in 1..Len(q) : q[i].type = type }

\* the sizes of the File entries of a queue, summed
RECURSIVE SumFileLen(_)
SumFileLen(q) ==
  IF q = << >> THEN 0
  ELSE (IF Head(q).type = "File" THEN Head(q).len ELSE 0) + SumFileLen(Tail(q))

----------------------------------------------------------------------------
\* the number of ready signals of worker w in a channel
ReadyCount(ch, w) ==
  Cardinality({ i \in 1..Len(ch) : ch[i].kind = "Ready" /\ ch[i].id = w })

\* the number of errors in a channel
ErrCount(ch) == Cardinality({ i \in 1..Len(ch) : IsFatal(ch[i]) })

\* C17: a copy worker that hits a fatal condition sends at most one error and
\* then leaves its loop, whether or not the error was delivered: from then on
\* it has exited for good, sends no ready signal and no further error, takes
\* no further item from its channel, and changes nothing in the file system
\* (every file-system change is the step of a worker that is still at work).
C17_FatalWorkerStops ==
  /\ [](\A w \in Workers :
          /\ errs_sent[w] <= 1
          /\ errs_sent[w] = 1 => (cpc[w] = "exit" /\ ccur[w] = NoItem))
  /\ [][\A w \in Workers :
          errs_sent[w] = 1 =>
            /\ cpc'[w] = "exit"
            /\ errs_sent'[w] = 1
            /\ ccur'[w] = NoItem
            /\ ReadyCount(request_chan', w) <= ReadyCount(request_chan, w)
            /\ Len(item_chan'[w]) >= Len(item_chan[w])]_vars
  /\ [][ErrCount(request_chan') > ErrCount(request_chan) =>
          \E w \in Workers : errs_sent[w] = 0 /\ errs_sent'[w] = 1]_vars
  /\ [][fs_vars' # fs_vars =>
          \E w \in Workers : cpc[w] = "work" /\ errs_sent[w] = 0]_vars

\* one worker has sent its error and exited while another worker is still
\* running and the coordinator has not yet read the error
C17_Witness ==
  /\ \E w \in Workers : errs_sent[w] = 1 /\ cpc[w] = "exit"
  /\ \E v \in Workers : errs_sent[v] = 0 /\ cpc[v] \in {"recv", "work"}
  /\ ErrCount(request_chan) = 1
  /\ pc = "copy_queue"


----------------------------------------------------------------------------
\* the items sent to worker w and not yet reported: waiting in its channel or
\* in its hands
Outstanding(w) == Len(item_chan[w]) + (IF cpc[w] = "work" THEN 1 ELSE 0)

\* C18: the copy phase is a pull model.  Each worker has at most one item sent
\* to it and not yet reported finished (in its inbound channel or being
\* processed), and none while a ready signal of its is still unread; the
\* coordinator sends an item to a worker only as its answer to a ready signal
\* that it has just read from that same worker.
C18_PullModel ==
  /\ [](\A w \in Workers :
          /\ Outstanding(w) + ReadyCount(request_chan, w) <= 1
          /\ cpc[w] = "work" <=> ccur[w] # NoItem)
  /\ [][\A w \in Workers :
          Len(item_chan'[w]) > Len(item_chan[w]) =>
            /\ pc = "copy_queue"
            /\ request_chan # << >>
            /\ Head(request_chan) = ThreadReady(w, Head(request_chan).delta)
            /\ request_chan' = Tail(request_chan)
            /\ item_chan'[w] = Append(item_chan[w], Head(queue))]_vars

\* two workers each have an item of their own: one in its channel, one at work
C18_Witness ==
  \E w, v \in Workers :
    /\ w # v
    /\ item_chan[w] # << >>
    /\ cpc[v] = "work"


----------------------------------------------------------------------------
\* C19: copy_queue returns success only if no worker hit a fatal condition.
\* Once idle has reached the thread count and the loop is left, no worker
\* has sent or tried to send an error, none has an item in its channel or in
\* its hands that could still fail, no error waits in the request channel,
\* and no error is returned.
C19_SuccessMeansNoFatal ==
  pc \in {"copy_join", "ok"} =>
    /\ idle = threads
    /\ result = NoResult
    /\ \A w \in Workers :
         /\ errs_sent[w] = 0
         /\ item_chan[w] = << >>
         /\ cpc[w] # "work"
    /\ \A i \in 1..Len(request_chan) : request_chan[i].kind = "Ready"

\* copy_queue has returned success with every thread used, for a tree with a
\* file whose destination was in the way (skipped or overwritten, not fatal)
C19_Witness ==
  /\ pc = "ok"
  /\ threads = MaxThreads
  /\ PreExisting # {}
  /\ \A n \in Nodes : processed[n] = 1


----------------------------------------------------------------------------
\* the sum of one counter of the deltas the workers reported for the entries S
RECURSIVE SumOutcome(_, _)
SumOutcome(S, c) ==
  IF S = {} THEN 0
  ELSE LET n == CHOOSE x \in S : TRUE IN outcome[n][c] + SumOutcome(S \ {n}, c)

\* C20: when the run ends with success, files copied plus files skipped is
\* files found and bytes copied plus bytes skipped is bytes found.  Every File
\* item has contributed exactly one delta, copied or skipped, of one file and
\* its scanned size; Directory items have contributed nothing; and the totals
\* are the sums of these deltas.
C20_Conservation ==
  pc = "ok" =>
    /\ accumulator.file_count_copied + accumulator.file_count_skipped
         = accumulator.file_count_found
    /\ accumulator.byte_count_copied + accumulator.byte_count_skipped
         = accumulator.byte_count_found
    /\ \A f \in Files :
         /\ processed[f] = 1
         /\ CopyPart(outcome[f]) \in { << 1, FileLen(f), 0, 0 >>,
                                       << 0, 0, 1, FileLen(f) >> }
    /\ \A d \in Dirs : CopyPart(outcome[d]) = << 0, 0, 0, 0 >>
    /\ \A c \in {"file_count_copied", "byte_count_copied",
                 "file_count_skipped", "byte_count_skipped"} :
         accumulator[c] = SumOutcome(Files, c)

\* the run has ended with success after one file was copied and another was
\* skipped, next to a directory or not
C20_Witness ==
  /\ pc = "ok"
  /\ accumulator.file_count_copied = 1
  /\ accumulator.file_count_skipped = 1
  /\ accumulator.byte_count_found = SumLen(Files)

============================================================================
